---- MODULE Spec2Model ----
(***************************************************************************)
(* A model of the opemu kernel module: the ftrace hook table and its       *)
(* install/remove discipline (trap_hook.c), the trap dispatcher            *)
(* fh_do_error_trap, and the bit-manipulation dispatcher bmi_instruction   *)
(* (bmi.c).                                                                *)
(*                                                                         *)
(* Kernel services (register_kprobe, ftrace_set_filter_ip,                 *)
(* register_ftrace_function, unregister_ftrace_function) are the           *)
(* environment: each call either succeeds with its documented effect or    *)
(* fails with an error code and no effect; the model draws the outcome.    *)
(***************************************************************************)
EXTENDS Integers, Sequences, FiniteSets, TLC

(***************************************************************************)
(* Bounds of the model.                                                    *)
(***************************************************************************)
\* Largest hook array handed to fh_install_hooks / fh_remove_hooks.
MaxHooks == 2

\* How many more times fh_remove_hooks is called on an array after its first
\* removal (SpecApi).
MaxRemoveAgain == 1

\* Threads that take a fault while the module is present.
MaxThreads == 1

\* Calls of bmi_instruction made one after another (SpecRepeat).
MaxCalls == 3

\* Threads that take faults at the same time on the loaded module (SpecSmp).
MaxConcurrent == 2

(***************************************************************************)
(* Program constants.                                                      *)
(***************************************************************************)
\* -ENOENT, returned by fh_resolve_hook_address for an unresolved symbol.
ENOENT == -2

\* The trap number user_trap emulates: invalid opcode.
X86_TRAP_UD == 6

\* Error codes a failing kernel service hands back (-ENOMEM, -EBUSY).
KernelErrors == {-12, -16}

\* Outcomes of one kernel call: 0 for success or an error code.
KernelResults == {0} \cup KernelErrors

\* Outcomes of a removal call (unregister_ftrace_function, or
\* ftrace_set_filter_ip with remove = 1), whose error code is only logged:
\* success or -EBUSY.
RemoveResults == {0, -16}

\* Entry addresses of the kernel functions the module names (0 is NULL).
SymbolAddress(name) ==
    CASE name = "kallsyms_lookup_name" -> 1
      [] name = "do_error_trap"        -> 2
      [] name = "do_trap"              -> 3
      [] OTHER                         -> 0

\* demo_hooks[]: the name of entry h (1-based); entries past the first stand
\* for the commented-out do_trap hook.
HookName(h) == IF h = 1 THEN "do_error_trap" ELSE "do_trap"

\* demo_hooks[]: the replacement function of entry h.
HookFunction(h) == IF h = 1 THEN "fh_do_error_trap" ELSE "fh_do_trap"

VARIABLES
    count,      \* ARRAY_SIZE of the hook array of this run
    hooks,      \* hooks[h]: address, ops.func, the ops' ftrace filter and registration
    original,   \* original[h]: the word *hook->original (orig_do_error_trap for h = 1)
    pc,         \* position of the loading/unloading thread
    i,          \* the loop index i of fh_install_hooks / fh_remove_hooks (0-based)
    cur,        \* the entry (1-based) fh_install_hook / fh_remove_hook is working on
    err,        \* the local err of fh_install_hooks
    ctx,        \* who called fh_remove_hook: "rollback" or "remove"
    klog,       \* kernel calls made by the current fh_init / fh_exit, in order
    ret,        \* what fh_init returned (meaningful once pc is "loaded" or "failed")
    again,      \* how many repeated fh_remove_hooks calls have been started
    snap,       \* the hook array as it was when the latest repeated call started
    th,         \* th[t]: the fault thread t is handling and how far it got
    insn,       \* SpecBmi: the arguments of the bmi_instruction call
    entry,      \* SpecBmi: the register snapshot on entry
    state,      \* SpecBmi: the register snapshot now
    result,     \* SpecBmi: what bmi_instruction returned
    bpc,        \* SpecBmi: "fault" before the call, "returned" after, "off" elsewhere
    calls       \* the bmi_instruction calls made so far: arguments, snapshots, result

hookVars == <<count, hooks, original, pc, i, cur, err, ctx, klog, ret, again, snap>>

trapVars == <<th>>
bmiVars == <<insn, entry, state, result, bpc, calls>>

Entries == 1..count
Threads == 1..MaxThreads

\* struct ftrace_hook after static initialisation: address 0, ops zeroed.
NewHook == [address |-> 0, func |-> "NULL", filter |-> {}, registered |-> FALSE]

KCall(fn, h, res) == [fn |-> fn, hook |-> h, res |-> res]

(***************************************************************************)
(* Kernel services, as far as the module relies on them.                   *)
(***************************************************************************)
\* ftrace_set_filter_ip(ops, ip, remove, 0): on success the ip joins (remove = 0)
\* or leaves (remove = 1) the ops' filter; on failure the filter is as before.
FtraceSetFilterIp(filter, ip, remove, res) ==
    IF res # 0 THEN filter
    ELSE IF remove = 1 THEN filter \ {ip}
    ELSE filter \cup {ip}

\* Whether ftrace can filter on ip: ftrace_set_filter_ip refuses, with an
\* error and no effect, an ip that is not the entry of a function; NULL, the
\* address of a hook that was never resolved, is none.
FtraceLocation(ip) == ip # 0

\* register_kprobe(&kp) with kp.symbol_name set: on success kp.addr is the
\* address of that symbol.
KprobeAddr(symbol_name) == SymbolAddress(symbol_name)

(***************************************************************************)
(* fh_resolve_hook_address                                                 *)
(***************************************************************************)
\* A faulty variant: after a failed register_kprobe the hook gets the address
\* of the probed symbol all the same.
fh_resolve_hook_address_takes_unprobed_addr(hook, orig, kp_res) ==
    [err |-> 0, address |-> KprobeAddr("kallsyms_lookup_name"),
     original |-> IF kp_res < 0 THEN orig ELSE KprobeAddr("kallsyms_lookup_name")]

\* A faulty variant: the address is resolved but *hook->original is left
\* unwritten.
fh_resolve_hook_address_no_original(hook, orig, kp_res) ==
    IF kp_res < 0
    THEN [err |-> 0, address |-> hook.address, original |-> orig]
    ELSE [err |-> 0, address |-> KprobeAddr("kallsyms_lookup_name"), original |-> orig]

\* The result of fh_resolve_hook_address on a hook whose fields are `hook`
\* and whose *original is `orig`, when register_kprobe returns kp_res.
fh_resolve_hook_address(hook, orig, kp_res) ==
    IF kp_res < 0
    THEN [err |-> 0, address |-> hook.address, original |-> orig]
    ELSE LET address == KprobeAddr("kallsyms_lookup_name") IN
         IF address = 0
         THEN [err |-> ENOENT, address |-> address, original |-> orig]
         ELSE [err |-> 0, address |-> address, original |-> address]

(***************************************************************************)
(* fh_remove_hook, in its two kernel calls                                 *)
(***************************************************************************)
\* The hook after unregister_ftrace_function(&hook->ops) returned res.
fh_remove_hook_unregister(hook, res) ==
    [hook EXCEPT !.registered = IF res = 0 THEN FALSE ELSE @]

\* A faulty variant: fh_remove_hook returns as soon as unregistering fails.
fh_remove_hook_returns_on_error(res) == res = 0

\* Whether fh_remove_hook goes on to the filter removal after
\* unregister_ftrace_function returned res: the error is only logged.
fh_remove_hook_filter_follows(res) == TRUE

\* A faulty variant: the filter call is made with remove = 0.
fh_remove_hook_filter_adds(hook, res) ==
    [hook EXCEPT !.filter = FtraceSetFilterIp(@, hook.address, 0, res)]

\* The hook after ftrace_set_filter_ip(&hook->ops, hook->address, 1, 0)
\* returned res.
fh_remove_hook_filter(hook, res) ==
    [hook EXCEPT !.filter = FtraceSetFilterIp(@, hook.address, 1, res)]

\* A faulty variant: the rollback stops before hooks[0].
fh_install_hooks_rollback_skips_first(idx) == idx > 1

\* The loop condition of the rollback in fh_install_hooks: while (i != 0).
fh_install_hooks_rollback_more(idx) == idx # 0

(***************************************************************************)
(* The loading thread: fh_init -> fh_install_hooks -> fh_install_hook      *)
(***************************************************************************)
fh_init_call ==
    /\ pc = "unloaded"
    /\ pc' = "install_loop"
    /\ i' = 0
    /\ klog' = << >>
    /\ UNCHANGED <<count, hooks, original, cur, err, ctx, ret, again, snap>>
    /\ UNCHANGED <<trapVars, bmiVars>>

\* for (i = 0; i < count; i++) ... return 0; fh_init then returns 0.
fh_install_hooks_loop ==
    /\ pc = "install_loop"
    /\ IF i < count
       THEN /\ cur' = i + 1
            /\ pc' = "resolve"
            /\ ret' = ret
       ELSE /\ cur' = cur
            /\ pc' = "loaded"
            /\ ret' = 0
    /\ UNCHANGED <<count, hooks, original, i, err, ctx, klog, again, snap>>
    /\ UNCHANGED <<trapVars, bmiVars>>

\* fh_install_hook: err = fh_resolve_hook_address(hook); if (err) return err;
fh_install_hook_resolve ==
    /\ pc = "resolve"
    /\ \E kp_res \in KernelResults :
          LET r == fh_resolve_hook_address(hooks[cur], original[cur], kp_res) IN
          /\ hooks' = [hooks EXCEPT ![cur].address = r.address]
          /\ original' = [original EXCEPT ![cur] = r.original]
          /\ klog' = Append(klog, KCall("register_kprobe", cur, kp_res))
          /\ err' = r.err
          /\ pc' = IF r.err # 0 THEN "error" ELSE "set_filter"
    /\ UNCHANGED <<count, i, cur, ctx, ret, again, snap>>
    /\ UNCHANGED <<trapVars, bmiVars>>

\* hook->ops.func = fh_ftrace_thunk; err = ftrace_set_filter_ip(.., 0, 0);
\* if (err) return err;
fh_install_hook_set_filter ==
    /\ pc = "set_filter"
    /\ \E res \in KernelResults :
          /\ res = 0 => FtraceLocation(hooks[cur].address)
          /\ hooks' = [hooks EXCEPT
                         ![cur].func = "fh_ftrace_thunk",
                         ![cur].filter = FtraceSetFilterIp(@, hooks[cur].address, 0, res)]
          /\ klog' = Append(klog, KCall("ftrace_set_filter_ip", cur, res))
          /\ err' = res
          /\ pc' = IF res # 0 THEN "error" ELSE "register"
    /\ UNCHANGED <<count, original, i, cur, ctx, ret, again, snap>>
    /\ UNCHANGED <<trapVars, bmiVars>>

\* err = register_ftrace_function(&hook->ops); on failure the filter is taken
\* back (the result of that call is ignored) and err returned; on success
\* fh_install_hook returns 0 and the loop of fh_install_hooks goes on.
fh_install_hook_register ==
    /\ pc = "register"
    /\ \E res \in KernelResults, res2 \in RemoveResults :
          IF res # 0
          THEN /\ res2 = 0 => FtraceLocation(hooks[cur].address)
               /\ hooks' = [hooks EXCEPT
                              ![cur].filter = FtraceSetFilterIp(@, hooks[cur].address, 1, res2)]
               /\ klog' = klog \o << KCall("register_ftrace_function", cur, res),
                                     KCall("ftrace_set_filter_ip_remove", cur, res2) >>
               /\ err' = res
               /\ pc' = "error"
               /\ i' = i
          ELSE /\ res2 = 0
               /\ hooks' = [hooks EXCEPT ![cur].registered = TRUE]
               /\ klog' = Append(klog, KCall("register_ftrace_function", cur, res))
               /\ err' = res
               /\ pc' = "install_loop"
               /\ i' = i + 1
    /\ UNCHANGED <<count, original, cur, ctx, ret, again, snap>>
    /\ UNCHANGED <<trapVars, bmiVars>>

\* error: while (i != 0) fh_remove_hook(&hooks[--i]); return err;
\* fh_init returns that err and the module is not loaded.
fh_install_hooks_error ==
    /\ pc = "error"
    /\ IF fh_install_hooks_rollback_more(i)
       THEN /\ i' = i - 1
            /\ cur' = i
            /\ ctx' = "rollback"
            /\ pc' = "unregister"
            /\ ret' = ret
       ELSE /\ i' = i
            /\ cur' = cur
            /\ ctx' = ctx
            /\ pc' = "failed"
            /\ ret' = err
    /\ UNCHANGED <<count, hooks, original, err, klog, again, snap>>
    /\ UNCHANGED <<trapVars, bmiVars>>

(***************************************************************************)
(* fh_remove_hook, called by the rollback and by fh_remove_hooks           *)
(***************************************************************************)
fh_remove_hook_step_unregister ==
    /\ pc = "unregister"
    /\ \E res \in RemoveResults :
          /\ hooks' = [hooks EXCEPT ![cur] = fh_remove_hook_unregister(@, res)]
          /\ klog' = Append(klog, KCall("unregister_ftrace_function", cur, res))
          /\ pc' = IF fh_remove_hook_filter_follows(res) THEN "rm_filter"
                   ELSE IF ctx = "rollback" THEN "error" ELSE "remove_loop"
          /\ i' = IF fh_remove_hook_filter_follows(res) \/ ctx = "rollback"
                  THEN i ELSE i + 1
    /\ UNCHANGED <<count, original, cur, err, ctx, ret, again, snap>>
    /\ UNCHANGED <<trapVars, bmiVars>>

fh_remove_hook_step_filter ==
    /\ pc = "rm_filter"
    /\ \E res \in RemoveResults :
          /\ res = 0 => FtraceLocation(hooks[cur].address)
          /\ hooks' = [hooks EXCEPT ![cur] = fh_remove_hook_filter(@, res)]
          /\ klog' = Append(klog, KCall("ftrace_set_filter_ip_remove", cur, res))
    /\ pc' = IF ctx = "rollback" THEN "error" ELSE "remove_loop"
    /\ i' = IF ctx = "rollback" THEN i ELSE i + 1
    /\ UNCHANGED <<count, original, cur, err, ctx, ret, again, snap>>
    /\ UNCHANGED <<trapVars, bmiVars>>

(***************************************************************************)
(* The unloading thread: fh_exit -> fh_remove_hooks                        *)
(***************************************************************************)
fh_exit_call ==
    /\ pc = "loaded"
    /\ pc' = "remove_loop"
    /\ i' = 0
    /\ ctx' = "remove"
    /\ klog' = << >>
    /\ UNCHANGED <<count, hooks, original, cur, err, ret, again, snap>>
    /\ UNCHANGED <<trapVars, bmiVars>>

\* for (i = 0; i < count; i++) fh_remove_hook(&hooks[i]); then fh_exit returns.
fh_remove_hooks_loop ==
    /\ pc = "remove_loop"
    /\ IF i < count
       THEN /\ cur' = i + 1
            /\ pc' = "unregister"
       ELSE /\ cur' = cur
            /\ pc' = "removed"
    /\ UNCHANGED <<count, hooks, original, i, err, ctx, klog, ret, again, snap>>
    /\ UNCHANGED <<trapVars, bmiVars>>

\* A caller of the interface calls fh_remove_hooks once more on an array
\* whose removal (by fh_exit, or by the rollback of a failed install) is over.
fh_remove_hooks_again ==
    /\ pc \in {"removed", "failed"}
    /\ again < MaxRemoveAgain
    /\ again' = again + 1
    /\ snap' = hooks
    /\ pc' = "remove_loop"
    /\ i' = 0
    /\ ctx' = "remove"
    /\ klog' = << >>
    /\ UNCHANGED <<count, hooks, original, cur, err, ret>>
    /\ UNCHANGED <<trapVars, bmiVars>>

LoaderNext ==
    \/ fh_init_call
    \/ fh_install_hooks_loop
    \/ fh_install_hook_resolve
    \/ fh_install_hook_set_filter
    \/ fh_install_hook_register
    \/ fh_install_hooks_error
    \/ fh_remove_hook_step_unregister
    \/ fh_remove_hook_step_filter
    \/ fh_exit_call
    \/ fh_remove_hooks_loop

HookInit ==
    /\ count \in 1..MaxHooks
    /\ hooks = [h \in 1..MaxHooks |-> NewHook]
    /\ original = [h \in 1..MaxHooks |-> 0]
    /\ pc = "unloaded"
    /\ i = 0
    /\ cur = 1
    /\ err = 0
    /\ ctx = "none"
    /\ klog = << >>
    /\ ret = 0
    /\ again = 0
    /\ snap = hooks

\* An entry as a successful fh_install_hook leaves it.
LoadedHook ==
    [address |-> fh_resolve_hook_address(NewHook, 0, 0).address,
     func |-> "fh_ftrace_thunk",
     filter |-> FtraceSetFilterIp({}, fh_resolve_hook_address(NewHook, 0, 0).address, 0, 0),
     registered |-> TRUE]

\* The loader once fh_init has returned 0, every kernel call having
\* succeeded: the module is loaded and all entries are installed.
HookLoaded ==
    /\ count \in 1..MaxHooks
    /\ hooks = [h \in 1..MaxHooks |-> IF h <= count THEN LoadedHook ELSE NewHook]
    /\ original = [h \in 1..MaxHooks |->
                      IF h <= count
                      THEN fh_resolve_hook_address(NewHook, 0, 0).original ELSE 0]
    /\ pc = "loaded"
    /\ i = count
    /\ cur = count
    /\ err = 0
    /\ ctx = "none"
    /\ klog = [j \in 1..(3 * count) |->
                  KCall(CASE j % 3 = 1 -> "register_kprobe"
                          [] j % 3 = 2 -> "ftrace_set_filter_ip"
                          [] OTHER     -> "register_ftrace_function",
                        (j + 2) \div 3, 0)]
    /\ ret = 0
    /\ again = 0
    /\ snap = [h \in 1..MaxHooks |-> NewHook]

\* The hook array of a run that only calls bmi_instruction.
HookOff ==
    /\ count = 1
    /\ hooks = [h \in 1..MaxHooks |-> NewHook]
    /\ original = [h \in 1..MaxHooks |-> 0]
    /\ pc = "off"
    /\ i = 0
    /\ cur = 1
    /\ err = 0
    /\ ctx = "none"
    /\ klog = << >>
    /\ ret = 0
    /\ again = 0
    /\ snap = hooks

(***************************************************************************)
(* Register values and the register snapshot                               *)
(*                                                                         *)
(* A register value is the set of the positions of its 1 bits, so that     *)
(* 32- and 64-bit values keep their width.                                 *)
(***************************************************************************)
Trunc(v, w) == {b \in v : b < w}

\* The number formed by the bits of v below position k (k <= 16).
RECURSIVE ToNat(_, _)
ToNat(v, k) ==
    IF k = 0 THEN 0
    ELSE ToNat(v, k - 1) + (IF (k - 1) \in v THEN 2 ^ (k - 1) ELSE 0)

LowestBit(v) == CHOOSE b \in v : \A c \in v : b <= c

\* How many bits of mask lie below position m.
Rank(m, mask) == Cardinality({k \in mask : k < m})

\* Whether adding a and b carries into position k: some lower position
\* generates a carry that every position in between propagates.
CarryInto(a, b, k) ==
    \E j \in a \cap b :
        j < k /\ \A m \in (j + 1)..(k - 1) : m \in a \/ m \in b

\* a + b on positions 0..top-1.
AddBits(a, b, top) ==
    {k \in 0..(top - 1) :
        ((k \in a) # (k \in b)) # CarryInto(a, b, k)}

\* a times the number whose 1 bits are bs, on positions 0..top-1.
RECURSIVE MulBits(_, _, _)
MulBits(a, bs, top) ==
    IF bs = {} THEN {}
    ELSE LET k == LowestBit(bs)
             rest == MulBits(a, bs \ {k}, top)
         IN AddBits({b + k : b \in a}, rest, top)

ArithFlags == {"CF", "ZF", "SF", "OF"}

\* flags with the members of `touched` rewritten: those in `on` set, the rest cleared.
SetFlags(flags, touched, on) == (flags \ touched) \cup (on \cap touched)

ZF(res) == IF res = {} THEN {"ZF"} ELSE {}
SF(res, w) == IF (w - 1) \in res THEN {"SF"} ELSE {}
CF(cond) == IF cond THEN {"CF"} ELSE {}

(***************************************************************************)
(* The twelve operations (bmi.h), each giving its result value(s) and the  *)
(* flags it leaves, at width w.                                            *)
(***************************************************************************)
rorx(src, imm, w) ==
    {(b + w - (imm % w)) % w : b \in Trunc(src, w)}

andn(src, vsrc, w, flags) ==
    LET res == Trunc(src, w) \ vsrc
    IN [res |-> res, flags |-> SetFlags(flags, ArithFlags, ZF(res) \cup SF(res, w))]

blsr(src, w, flags) ==
    LET s == Trunc(src, w)
        res == IF s = {} THEN {} ELSE s \ {LowestBit(s)}
    IN [res |-> res,
        flags |-> SetFlags(flags, ArithFlags, ZF(res) \cup SF(res, w) \cup CF(s # {}))]

blsmsk(src, w, flags) ==
    LET s == Trunc(src, w)
        res == IF s = {} THEN 0..(w - 1) ELSE 0..LowestBit(s)
    IN [res |-> res,
        flags |-> SetFlags(flags, ArithFlags, SF(res, w) \cup CF(s = {}))]

blsi(src, w, flags) ==
    LET s == Trunc(src, w)
        res == IF s = {} THEN {} ELSE {LowestBit(s)}
    IN [res |-> res,
        flags |-> SetFlags(flags, ArithFlags, ZF(res) \cup SF(res, w) \cup CF(s # {}))]

bzhi(src, vsrc, w, flags) ==
    LET n == ToNat(vsrc, 8)
        res == {b \in Trunc(src, w) : b < n}
    IN [res |-> res,
        flags |-> SetFlags(flags, {"CF", "ZF", "SF"},
                           ZF(res) \cup SF(res, w) \cup CF(n > w - 1))]

pext(src, vsrc, w) ==
    {Rank(m, Trunc(vsrc, w)) : m \in Trunc(vsrc, w) \cap src}

pdep(src, vsrc, w) ==
    {m \in Trunc(vsrc, w) : Rank(m, Trunc(vsrc, w)) \in src}

\* The implicit multiplicand is rdx (register 2).
mulx(src, rdx, w) ==
    LET p == MulBits(Trunc(src, w), Trunc(rdx, w), 2 * w)
    IN [res |-> {b - w : b \in {c \in p : c >= w}}, dres |-> Trunc(p, w)]

bextr(src, vsrc, w, flags) ==
    LET start == ToNat(vsrc, 8)
        len == ToNat({b - 8 : b \in {c \in vsrc : c >= 8}}, 8)
        res == {b - start : b \in {c \in Trunc(src, w) : c >= start /\ c < start + len}}
    IN [res |-> res, flags |-> SetFlags(flags, {"ZF"}, ZF(res))]

ShiftCount(vsrc, w) == ToNat(vsrc, 8) % w

shlx(src, vsrc, w) ==
    {c \in {b + ShiftCount(vsrc, w) : b \in Trunc(src, w)} : c < w}

shrx(src, vsrc, w) ==
    {b - ShiftCount(vsrc, w) : b \in {c \in Trunc(src, w) : c >= ShiftCount(vsrc, w)}}

sarx(src, vsrc, w) ==
    shrx(src, vsrc, w) \cup
        (IF (w - 1) \in src THEN (w - ShiftCount(vsrc, w))..(w - 1) ELSE {})

(***************************************************************************)
(* Decoder helpers used by bmi_instruction (optrap.h)                      *)
(***************************************************************************)
ModReg(modrm) == (modrm \div 8) % 8
ModRm(modrm) == modrm % 8
ModMod(modrm) == modrm \div 64

\* get_consumed: the ModRM byte, a SIB byte when rm = 4 in a memory form, and
\* the displacement bytes the mod field asks for.
get_consumed(modrm) ==
    LET mod == ModMod(modrm)
        rm == ModRm(modrm)
        sib == IF mod # 3 /\ rm = 4 THEN 1 ELSE 0
        disp == CASE mod = 0 -> (IF rm = 5 THEN 4 ELSE 0)
                  [] mod = 1 -> 1
                  [] mod = 2 -> 4
                  [] OTHER   -> 0
    IN 1 + sib + disp

\* get_x64regs: the source is the rm register in the register-direct form and
\* the memory operand otherwise; the second source is the vvvv register; the
\* destination is the reg register.
get_x64regs(regs, a, num_src, num_dst, w) ==
    [src  |-> Trunc(IF ModMod(a.modrm) = 3 THEN regs.gpr[num_src] ELSE a.memval, w),
     vsrc |-> Trunc(regs.gpr[a.vexreg], w),
     dst  |-> Trunc(regs.gpr[num_dst], w)]

\* _load_m64 / _load_m32: commit a result to general-purpose register num.
load_m64(num, val, regs) == [regs EXCEPT !.gpr[num] = val]
load_m32(num, val, regs) == [regs EXCEPT !.gpr[num] = Trunc(val, 32)]

(***************************************************************************)
(* bmi_instruction: the 64-bit switch, one operator per case. Each gives   *)
(* the register snapshot and ins_size with which the case reaches break.   *)
(***************************************************************************)
\* A faulty variant of case 0xF0: the result goes to the ModRM.rm register.
bmi64_F0_to_rm(regs, a, l) ==
    IF a.simd_prefix = 3 /\ a.leading_opcode = 3
    THEN [regs |-> load_m64(l.num_src, rorx(l.src, l.imm, a.operand_size), regs),
          ins_size |-> (l.ins_size + 1) % 256]
    ELSE [regs |-> regs, ins_size |-> l.ins_size]

\* case 0xF0: rorx
bmi64_F0(regs, a, l) ==
    IF a.simd_prefix = 3 /\ a.leading_opcode = 3
    THEN [regs |-> load_m64(l.num_dst, rorx(l.src, l.imm, a.operand_size), regs),
          ins_size |-> (l.ins_size + 1) % 256]
    ELSE [regs |-> regs, ins_size |-> l.ins_size]

\* case 0xF2: andn
bmi64_F2(regs, a, l) ==
    IF a.simd_prefix = 0 /\ a.leading_opcode = 2
    THEN LET r == andn(l.src, l.vsrc, a.operand_size, regs.flags)
         IN [regs |-> load_m64(l.num_dst, r.res, [regs EXCEPT !.flags = r.flags]),
             ins_size |-> l.ins_size]
    ELSE [regs |-> regs, ins_size |-> l.ins_size]

\* A faulty variant of case 0xF3: blsr commits to the ModRM.reg register.
bmi64_F3_blsr_to_reg(regs, a, l) ==
    IF a.simd_prefix = 0 /\ a.leading_opcode = 2 /\ l.modreg = 1
    THEN LET r == blsr(l.src, a.operand_size, regs.flags)
         IN [regs |-> load_m64(l.num_dst, r.res, [regs EXCEPT !.flags = r.flags]),
             ins_size |-> l.ins_size]
    ELSE [regs |-> regs, ins_size |-> l.ins_size]

\* case 0xF3: blsr / blsmsk / blsi, by ModRM.reg
bmi64_F3(regs, a, l) ==
    IF a.simd_prefix = 0 /\ a.leading_opcode = 2
    THEN IF l.modreg = 1
         THEN LET r == blsr(l.src, a.operand_size, regs.flags)
         IN [regs |-> load_m64(a.vexreg, r.res, [regs EXCEPT !.flags = r.flags]),
             ins_size |-> l.ins_size]
         ELSE IF l.modreg = 2
         THEN LET r == blsmsk(l.src, a.operand_size, regs.flags)
         IN [regs |-> load_m64(a.vexreg, r.res, [regs EXCEPT !.flags = r.flags]),
             ins_size |-> l.ins_size]
         ELSE IF l.modreg = 3
         THEN LET r == blsi(l.src, a.operand_size, regs.flags)
         IN [regs |-> load_m64(a.vexreg, r.res, [regs EXCEPT !.flags = r.flags]),
             ins_size |-> l.ins_size]
         ELSE [regs |-> regs, ins_size |-> l.ins_size]
    ELSE [regs |-> regs, ins_size |-> l.ins_size]

\* case 0xF5: bzhi / pext / pdep, by prefix
bmi64_F5(regs, a, l) ==
    IF a.leading_opcode = 2
    THEN IF a.simd_prefix = 0
         THEN LET r == bzhi(l.src, l.vsrc, a.operand_size, regs.flags)
         IN [regs |-> load_m64(l.num_dst, r.res, [regs EXCEPT !.flags = r.flags]),
             ins_size |-> l.ins_size]
         ELSE IF a.simd_prefix = 2
         THEN [regs |-> load_m64(l.num_dst, pext(l.src, l.vsrc, a.operand_size), regs), ins_size |-> l.ins_size]
         ELSE IF a.simd_prefix = 3
         THEN [regs |-> load_m64(l.num_dst, pdep(l.src, l.vsrc, a.operand_size), regs), ins_size |-> l.ins_size]
         ELSE [regs |-> regs, ins_size |-> l.ins_size]
    ELSE [regs |-> regs, ins_size |-> l.ins_size]

\* case 0xF6: mulx, two destinations
bmi64_F6(regs, a, l) ==
    IF a.simd_prefix = 3 /\ a.leading_opcode = 2
    THEN LET r == mulx(l.src, regs.gpr[2], a.operand_size)
         IN [regs |-> load_m64(a.vexreg, r.dres, load_m64(l.num_dst, r.res, regs)),
             ins_size |-> l.ins_size]
    ELSE [regs |-> regs, ins_size |-> l.ins_size]

\* case 0xF7: bextr / shlx / sarx / shrx, by prefix
bmi64_F7(regs, a, l) ==
    IF a.leading_opcode = 2
    THEN IF a.simd_prefix = 0
         THEN LET r == bextr(l.src, l.vsrc, a.operand_size, regs.flags)
         IN [regs |-> load_m64(l.num_dst, r.res, [regs EXCEPT !.flags = r.flags]),
             ins_size |-> l.ins_size]
         ELSE IF a.simd_prefix = 1
         THEN [regs |-> load_m64(l.num_dst, shlx(l.src, l.vsrc, a.operand_size), regs), ins_size |-> l.ins_size]
         ELSE IF a.simd_prefix = 2
         THEN [regs |-> load_m64(l.num_dst, sarx(l.src, l.vsrc, a.operand_size), regs), ins_size |-> l.ins_size]
         ELSE IF a.simd_prefix = 3
         THEN [regs |-> load_m64(l.num_dst, shrx(l.src, l.vsrc, a.operand_size), regs), ins_size |-> l.ins_size]
         ELSE [regs |-> regs, ins_size |-> l.ins_size]
    ELSE [regs |-> regs, ins_size |-> l.ins_size]

(***************************************************************************)
(* bmi_instruction: the 32-bit switch, one operator per case. Each gives   *)
(* the register snapshot and ins_size with which the case reaches break.   *)
(***************************************************************************)
\* A faulty variant of case 0xF0: the immediate byte is not counted.
bmi32_F0_imm_not_counted(regs, a, l) ==
    IF a.simd_prefix = 3 /\ a.leading_opcode = 3
    THEN [regs |-> load_m32(l.num_dst, rorx(l.src, l.imm, 32), regs),
          ins_size |-> l.ins_size]
    ELSE [regs |-> regs, ins_size |-> l.ins_size]

\* case 0xF0: rorx
bmi32_F0(regs, a, l) ==
    IF a.simd_prefix = 3 /\ a.leading_opcode = 3
    THEN [regs |-> load_m32(l.num_dst, rorx(l.src, l.imm, 32), regs),
          ins_size |-> (l.ins_size + 1) % 256]
    ELSE [regs |-> regs, ins_size |-> l.ins_size]

\* case 0xF2: andn
bmi32_F2(regs, a, l) ==
    IF a.simd_prefix = 0 /\ a.leading_opcode = 2
    THEN LET r == andn(l.src, l.vsrc, 32, regs.flags)
         IN [regs |-> load_m32(l.num_dst, r.res, [regs EXCEPT !.flags = r.flags]),
             ins_size |-> l.ins_size]
    ELSE [regs |-> regs, ins_size |-> l.ins_size]

\* case 0xF3: blsr / blsmsk / blsi, by ModRM.reg
bmi32_F3(regs, a, l) ==
    IF a.simd_prefix = 0 /\ a.leading_opcode = 2
    THEN IF l.modreg = 1
         THEN LET r == blsr(l.src, 32, regs.flags)
         IN [regs |-> load_m32(a.vexreg, r.res, [regs EXCEPT !.flags = r.flags]),
             ins_size |-> l.ins_size]
         ELSE IF l.modreg = 2
         THEN LET r == blsmsk(l.src, 32, regs.flags)
         IN [regs |-> load_m32(a.vexreg, r.res, [regs EXCEPT !.flags = r.flags]),
             ins_size |-> l.ins_size]
         ELSE IF l.modreg = 3
         THEN LET r == blsi(l.src, 32, regs.flags)
         IN [regs |-> load_m32(a.vexreg, r.res, [regs EXCEPT !.flags = r.flags]),
             ins_size |-> l.ins_size]
         ELSE [regs |-> regs, ins_size |-> l.ins_size]
    ELSE [regs |-> regs, ins_size |-> l.ins_size]

\* A faulty variant of case 0xF5: the F3 prefix selects pdep and F2 pext.
bmi32_F5_pext_pdep_swapped(regs, a, l) ==
    IF a.leading_opcode = 2 /\ a.simd_prefix = 0
    THEN [regs |-> load_m32(l.num_dst, bzhi(l.src, l.vsrc, 32, regs.flags).res,
                            [regs EXCEPT !.flags = bzhi(l.src, l.vsrc, 32, regs.flags).flags]),
          ins_size |-> l.ins_size]
    ELSE IF a.leading_opcode = 2 /\ a.simd_prefix = 2
    THEN [regs |-> load_m32(l.num_dst, pdep(l.src, l.vsrc, 32), regs), ins_size |-> l.ins_size]
    ELSE IF a.leading_opcode = 2 /\ a.simd_prefix = 3
    THEN [regs |-> load_m32(l.num_dst, pext(l.src, l.vsrc, 32), regs), ins_size |-> l.ins_size]
    ELSE [regs |-> regs, ins_size |-> l.ins_size]

\* case 0xF5: bzhi / pext / pdep, by prefix
bmi32_F5(regs, a, l) ==
    IF a.leading_opcode = 2
    THEN IF a.simd_prefix = 0
         THEN LET r == bzhi(l.src, l.vsrc, 32, regs.flags)
         IN [regs |-> load_m32(l.num_dst, r.res, [regs EXCEPT !.flags = r.flags]),
             ins_size |-> l.ins_size]
         ELSE IF a.simd_prefix = 2
         THEN [regs |-> load_m32(l.num_dst, pext(l.src, l.vsrc, 32), regs), ins_size |-> l.ins_size]
         ELSE IF a.simd_prefix = 3
         THEN [regs |-> load_m32(l.num_dst, pdep(l.src, l.vsrc, 32), regs), ins_size |-> l.ins_size]
         ELSE [regs |-> regs, ins_size |-> l.ins_size]
    ELSE [regs |-> regs, ins_size |-> l.ins_size]

\* A faulty variant of case 0xF6: only the ModRM.reg register is written.
bmi32_F6_one_destination(regs, a, l) ==
    IF a.simd_prefix = 3 /\ a.leading_opcode = 2
    THEN [regs |-> load_m32(l.num_dst, mulx(l.src, regs.gpr[2], 32).res, regs),
          ins_size |-> l.ins_size]
    ELSE [regs |-> regs, ins_size |-> l.ins_size]

\* case 0xF6: mulx, two destinations
bmi32_F6(regs, a, l) ==
    IF a.simd_prefix = 3 /\ a.leading_opcode = 2
    THEN LET r == mulx(l.src, regs.gpr[2], 32)
         IN [regs |-> load_m32(a.vexreg, r.dres, load_m32(l.num_dst, r.res, regs)),
             ins_size |-> l.ins_size]
    ELSE [regs |-> regs, ins_size |-> l.ins_size]

\* case 0xF7: bextr / shlx / sarx / shrx, by prefix
bmi32_F7(regs, a, l) ==
    IF a.leading_opcode = 2
    THEN IF a.simd_prefix = 0
         THEN LET r == bextr(l.src, l.vsrc, 32, regs.flags)
         IN [regs |-> load_m32(l.num_dst, r.res, [regs EXCEPT !.flags = r.flags]),
             ins_size |-> l.ins_size]
         ELSE IF a.simd_prefix = 1
         THEN [regs |-> load_m32(l.num_dst, shlx(l.src, l.vsrc, 32), regs), ins_size |-> l.ins_size]
         ELSE IF a.simd_prefix = 2
         THEN [regs |-> load_m32(l.num_dst, sarx(l.src, l.vsrc, 32), regs), ins_size |-> l.ins_size]
         ELSE IF a.simd_prefix = 3
         THEN [regs |-> load_m32(l.num_dst, shrx(l.src, l.vsrc, 32), regs), ins_size |-> l.ins_size]
         ELSE [regs |-> regs, ins_size |-> l.ins_size]
    ELSE [regs |-> regs, ins_size |-> l.ins_size]

(***************************************************************************)
(* bmi_instruction                                                         *)
(***************************************************************************)
\* The operand width of this emulation: operand_size on the 64-bit path.
Width(regs, a) == IF regs.is64 THEN a.operand_size ELSE 32

\* A faulty variant: ins_size is kept from the previous call, as a static
\* would be.
bmi_locals_static_ins_size(regs, a) ==
    [modreg |-> ModReg(a.modrm),
     num_dst |-> ModReg(a.modrm) + (IF a.high_reg # 0 THEN 8 ELSE 0),
     num_src |-> ModRm(a.modrm) + (IF a.high_base # 0 THEN 8 ELSE 0),
     src |-> get_x64regs(regs, a, ModRm(a.modrm) + (IF a.high_base # 0 THEN 8 ELSE 0),
                         ModReg(a.modrm) + (IF a.high_reg # 0 THEN 8 ELSE 0),
                         Width(regs, a)).src,
     vsrc |-> get_x64regs(regs, a, ModRm(a.modrm) + (IF a.high_base # 0 THEN 8 ELSE 0),
                         ModReg(a.modrm) + (IF a.high_reg # 0 THEN 8 ELSE 0),
                         Width(regs, a)).vsrc,
     dst |-> get_x64regs(regs, a, ModRm(a.modrm) + (IF a.high_base # 0 THEN 8 ELSE 0),
                         ModReg(a.modrm) + (IF a.high_reg # 0 THEN 8 ELSE 0),
                         Width(regs, a)).dst,
     imm |-> a.imm,
     ins_size |-> ((IF calls = << >> THEN a.ins_size ELSE calls[Len(calls)].result)
                   + get_consumed(a.modrm)) % 256]

\* The locals bmi_instruction sets up before its switch.
bmi_locals(regs, a) ==
    LET modreg == ModReg(a.modrm)
        num_dst == modreg + (IF a.high_reg # 0 THEN 8 ELSE 0)
        num_src == ModRm(a.modrm) + (IF a.high_base # 0 THEN 8 ELSE 0)
        o == get_x64regs(regs, a, num_src, num_dst, Width(regs, a))
    IN [modreg |-> modreg, num_dst |-> num_dst, num_src |-> num_src,
        src |-> o.src, vsrc |-> o.vsrc, dst |-> o.dst,
        imm |-> a.imm,
        ins_size |-> (a.ins_size + get_consumed(a.modrm)) % 256]

\* A faulty variant: a case that reached break reports "not handled".
Break_not_handled(r) == [ret |-> 0, regs |-> r.regs]

\* A case that reached break: bmi_instruction returns ins_size.
Break(r) == [ret |-> r.ins_size, regs |-> r.regs]

\* The switch of bmi_instruction with its locals l set up: default returns 0
\* at once, every other case runs to break.
bmi_switch(regs, a, l) ==
    IF regs.is64
    THEN CASE a.opcode = 240 -> Break(bmi64_F0(regs, a, l))
           [] a.opcode = 242 -> Break(bmi64_F2(regs, a, l))
           [] a.opcode = 243 -> Break(bmi64_F3(regs, a, l))
           [] a.opcode = 245 -> Break(bmi64_F5(regs, a, l))
           [] a.opcode = 246 -> Break(bmi64_F6(regs, a, l))
           [] a.opcode = 247 -> Break(bmi64_F7(regs, a, l))
           [] OTHER          -> [ret |-> 0, regs |-> regs]
    ELSE CASE a.opcode = 240 -> Break(bmi32_F0(regs, a, l))
           [] a.opcode = 242 -> Break(bmi32_F2(regs, a, l))
           [] a.opcode = 243 -> Break(bmi32_F3(regs, a, l))
           [] a.opcode = 245 -> Break(bmi32_F5(regs, a, l))
           [] a.opcode = 246 -> Break(bmi32_F6(regs, a, l))
           [] a.opcode = 247 -> Break(bmi32_F7(regs, a, l))
           [] OTHER          -> [ret |-> 0, regs |-> regs]

\* The snapshot and the return value of bmi_instruction on snapshot regs and
\* arguments a.
bmi_instruction(regs, a) == bmi_switch(regs, a, bmi_locals(regs, a))

(***************************************************************************)
(* Inputs: register snapshots and instructions                             *)
(***************************************************************************)
GprValue(r) == {r % 4, 4 + ((r * 7) % 27), 31 + r}

\* A pt_regs: the sixteen general-purpose registers, the arithmetic flags,
\* the instruction pointer, and what user_mode() and is_saved_state64() read.
Snapshot(flags, is64, user) ==
    [gpr |-> [r \in 0..15 |-> GprValue(r)], flags |-> flags, ip |-> 64,
     is64 |-> is64, user |-> user]

\* The arguments of one bmi_instruction call, as the decoder hands them over;
\* imm is the byte bytep[consumed], memval the value of the memory operand.
Args(opcode, simd_prefix, leading_opcode, modrm, high_reg, vexreg, operand_size, ins_size) ==
    [opcode |-> opcode, simd_prefix |-> simd_prefix, leading_opcode |-> leading_opcode,
     modrm |-> modrm, high_reg |-> high_reg, high_index |-> 0, high_base |-> 0,
     vexreg |-> vexreg, operand_size |-> operand_size, ins_size |-> ins_size,
     imm |-> 9, memval |-> {0, 5, 17, 31, 48}, modbyte |-> 0]

Opcodes == {240, 241, 242, 243, 245, 246, 247}
SimdPrefixes == 0..3
LeadingOpcodes == 1..3
\* mod 3 with reg 1, 2, 3, 4; mod 0 with a SIB byte; mod 2 with a disp32.
ModRMs == {200, 211, 217, 225, 12, 154}
VexRegs == {1, 3, 11}
InsSizes == {4, 5}
OperandSizes == {32, 64}
FlagSets == {{"CF", "OF"}, {"ZF", "SF"}}

AllArgs ==
    {Args(o, s, m, b, h, v, w, n) :
        o \in Opcodes, s \in SimdPrefixes, m \in LeadingOpcodes, b \in ModRMs,
        h \in {0, 1}, v \in VexRegs, w \in OperandSizes, n \in InsSizes}

(***************************************************************************)
(* SpecBmi: one call of bmi_instruction                                    *)
(***************************************************************************)
bmi_call ==
    /\ bpc = "fault"
    /\ LET r == bmi_instruction(state, insn) IN
          /\ state' = r.regs
          /\ result' = r.ret
    /\ calls' = Append(calls, [insn |-> insn, entry |-> entry,
                                state |-> state', result |-> result'])
    /\ bpc' = "returned"
    /\ UNCHANGED <<insn, entry>>
    /\ UNCHANGED <<hookVars, trapVars>>

BmiInit ==
    /\ insn \in AllArgs
    /\ entry \in {Snapshot(f, w, TRUE) : f \in FlagSets, w \in BOOLEAN}
    /\ state = entry
    /\ result = 0
    /\ bpc = "fault"
    /\ calls = << >>

BmiOff ==
    /\ insn = Args(241, 0, 1, 200, 0, 1, 64, 4)
    /\ entry = Snapshot({}, TRUE, TRUE)
    /\ state = entry
    /\ result = 0
    /\ bpc = "off"
    /\ calls = << >>

(***************************************************************************)
(* SpecRepeat: bmi_instruction called for one fault after another          *)
(***************************************************************************)
\* The instructions of the repeated faults: a rorx, an andn (which writes
\* flags) and an unknown opcode.
RepeatArgs ==
    {Args(240, 3, 3, 200, 0, 1, 64, 4),
     Args(242, 0, 2, 217, 0, 3, 32, 4),
     Args(241, 0, 2, 200, 0, 1, 64, 4)}

\* The snapshots the repeated faults are taken with.
RepeatSnapshots == {Snapshot(f, TRUE, TRUE) : f \in FlagSets}

\* The next fault: bmi_instruction is about to be called again.
bmi_next_fault ==
    /\ bpc = "returned"
    /\ Len(calls) < MaxCalls
    /\ \E a \in RepeatArgs, e \in RepeatSnapshots :
          /\ insn' = a
          /\ entry' = e
          /\ state' = e
    /\ result' = 0
    /\ bpc' = "fault"
    /\ UNCHANGED calls
    /\ UNCHANGED <<hookVars, trapVars>>

RepeatInit ==
    /\ insn \in RepeatArgs
    /\ entry \in RepeatSnapshots
    /\ state = entry
    /\ result = 0
    /\ bpc = "fault"
    /\ calls = << >>

(***************************************************************************)
(* The trap dispatcher                                                     *)
(***************************************************************************)
\* What opemu_utrap makes of its emulator's result r: a consumed-byte count
\* advances the instruction pointer and the trap is handled.
opemu_writeback(r) ==
    IF r.ret # 0
    THEN [ret |-> 1, regs |-> [r.regs EXCEPT !.ip = @ + r.ret]]
    ELSE [ret |-> 0, regs |-> r.regs]

\* opemu_utrap: decode the instruction at regs->ip, hand it to its emulator,
\* write back. The emulator runs once; r is what it returned.
opemu_utrap(regs, ins) ==
    CHOOSE w \in {opemu_writeback(r) : r \in {bmi_instruction(regs, ins)}} : TRUE

\* kernel_trap: nothing is emulated for a kernel-mode fault.
kernel_trap(regs, ins, trapnr) == [ret |-> 0, regs |-> regs, emu |-> 0]

\* user_trap after its call of opemu_utrap returned e.
user_trap_emulated(e) ==
    [ret |-> IF e.ret # 0 THEN 1 ELSE 0, regs |-> e.regs, emu |-> 1]

\* A faulty variant: user_trap emulates whatever the trap number.
user_trap_any_trapnr(regs, ins, trapnr) ==
    user_trap_emulated(opemu_utrap(regs, ins))

\* user_trap: for trap 6 the emulator is tried, and 1 returned when it handled
\* the instruction. emu counts the calls of opemu_utrap.
user_trap(regs, ins, trapnr) ==
    IF trapnr = X86_TRAP_UD
    THEN user_trap_emulated(opemu_utrap(regs, ins))
    ELSE [ret |-> 0, regs |-> regs, emu |-> 0]

\* A faulty variant: the fault is forwarded although the trap was handled.
fh_do_error_trap_always_forwards(r) ==
    [forward |-> TRUE, handled |-> r.ret # 0, regs |-> r.regs, emu |-> r.emu]

\* fh_do_error_trap after user_trap / kernel_trap returned r: it returns when
\* the trap was handled and calls orig_do_error_trap otherwise.
fh_do_error_trap_decide(r) ==
    [forward |-> r.ret = 0, handled |-> r.ret # 0, regs |-> r.regs, emu |-> r.emu]

\* A faulty variant: the handler works on one snapshot shared by all threads
\* (that of the first) instead of the one it was called with.
fh_do_error_trap_shared_snapshot(regs, ins, trapnr) ==
    fh_do_error_trap_decide(IF th[1].regs.user THEN user_trap(th[1].regs, th[1].ins, trapnr)
                            ELSE kernel_trap(th[1].regs, th[1].ins, trapnr))

\* fh_do_error_trap up to its return or its call through orig_do_error_trap:
\* forward says which, regs is the snapshot by then. user_trap / kernel_trap
\* is called once; r is what it returned.
fh_do_error_trap(regs, ins, trapnr) ==
    CHOOSE d \in {fh_do_error_trap_decide(r) :
                    r \in {IF regs.user THEN user_trap(regs, ins, trapnr)
                           ELSE kernel_trap(regs, ins, trapnr)}} : TRUE

\* A faulty variant: the thunk redirects whoever the caller is.
fh_ftrace_thunk_any_caller(parent_in_module) == TRUE

\* fh_ftrace_thunk: whether the call is redirected to hook->function; with
\* USE_FENTRY_OFFSET 0 only calls from outside this module are.
fh_ftrace_thunk(parent_in_module) == ~parent_in_module

\* ftrace on a call of the function at address ip: some registered ops of the
\* hook array filters on ip and its thunk redirects to fh_do_error_trap.
Redirected(ip, parent_in_module) ==
    \E h \in Entries :
        /\ hooks[h].registered
        /\ ip \in hooks[h].filter
        /\ HookFunction(h) = "fh_do_error_trap"
        /\ fh_ftrace_thunk(parent_in_module)

\* The traps do_error_trap is called for: invalid opcode and divide error.
TrapKinds ==
    {[trapnr |-> 6, signr |-> 4, str |-> "invalid opcode", error_code |-> 0],
     [trapnr |-> 0, signr |-> 8, str |-> "divide error", error_code |-> 0]}

\* The faulting instructions: a rorx, an unknown opcode, and the andn opcode
\* under a 66 prefix.
FaultInsns ==
    {Args(240, 3, 3, 200, 0, 1, 64, 4),
     Args(241, 0, 2, 200, 0, 1, 64, 4),
     Args(242, 1, 2, 200, 0, 1, 64, 4)}

\* The faults taken: each instruction as a user-mode invalid opcode, and the
\* first of them as a kernel-mode invalid opcode and as a user-mode divide
\* error.
Faults ==
    {f \in [trap : TrapKinds, ins : FaultInsns, user : BOOLEAN] :
        \/ f.user /\ f.trap.trapnr = 6
        \/ f.ins.opcode = 240 /\ (f.user \/ f.trap.trapnr = 6)}

IdleThread ==
    [pc |-> "idle", trap |-> CHOOSE k \in TrapKinds : k.trapnr = 6,
     ins |-> Args(241, 0, 2, 200, 0, 1, 64, 4),
     regs0 |-> Snapshot({}, TRUE, TRUE), regs |-> Snapshot({}, TRUE, TRUE),
     enters |-> 0, emu |-> 0, handled |-> FALSE, fwd |-> << >>, target |-> 0]

\* The kernel calls a function the hook array redirects, from outside the
\* module: thread t enters fh_do_error_trap with the arguments of that call.
kernel_call(t) ==
    /\ th[t].pc = "idle"
    /\ \E callee \in {"do_error_trap", "kallsyms_lookup_name"}, f \in Faults :
          /\ Redirected(SymbolAddress(callee), FALSE)
          /\ th' = [th EXCEPT ![t] =
                      [IdleThread EXCEPT
                          !.pc = "fh_do_error_trap", !.trap = f.trap, !.ins = f.ins,
                          !.regs0 = Snapshot({"CF"}, TRUE, f.user),
                          !.regs = Snapshot({"CF"}, TRUE, f.user),
                          !.enters = 1]]
    /\ UNCHANGED <<hookVars, bmiVars>>

\* Thread record x after the body of fh_do_error_trap came to r, with
\* orig_do_error_trap holding orig: the arguments of the forwarding call are
\* the ones the handler received.
AfterTrap(x, r, orig) ==
    [x EXCEPT
        !.regs = r.regs,
        !.emu = @ + r.emu,
        !.handled = r.handled,
        !.pc = IF r.forward THEN "forward" ELSE "returned",
        !.target = IF r.forward THEN orig ELSE @,
        !.fwd = IF r.forward
                THEN Append(@, [regs |-> r.regs,
                                error_code |-> x.trap.error_code,
                                str |-> x.trap.str,
                                trapnr |-> x.trap.trapnr,
                                signr |-> x.trap.signr])
                ELSE @]

\* The body of fh_do_error_trap: it returns, or it calls through the pointer
\* orig_do_error_trap with the arguments it received.
fh_do_error_trap_step(t) ==
    /\ th[t].pc = "fh_do_error_trap"
    /\ \E r \in {fh_do_error_trap(th[t].regs, th[t].ins, th[t].trap.trapnr)} :
          th' = [th EXCEPT ![t] = AfterTrap(@, r, original[1])]
    /\ UNCHANGED <<hookVars, bmiVars>>

\* The call through orig_do_error_trap lands: on NULL it faults; otherwise
\* ftrace sees a call from inside the module, and the function at the
\* address runs unless the thunk redirects it back.
orig_do_error_trap_call(t) ==
    /\ th[t].pc = "forward"
    /\ th' = [th EXCEPT
                 ![t].pc = IF th[t].target = 0 THEN "oops"
                           ELSE IF Redirected(th[t].target, TRUE) THEN "fh_do_error_trap"
                           ELSE "returned",
                 ![t].enters = IF th[t].target # 0 /\ Redirected(th[t].target, TRUE)
                               THEN @ + 1 ELSE @]
    /\ UNCHANGED <<hookVars, bmiVars>>

TrapNext ==
    \E t \in Threads :
        \/ kernel_call(t)
        \/ fh_do_error_trap_step(t)
        \/ orig_do_error_trap_call(t)

TrapInit == th = [t \in Threads |-> IdleThread]

(***************************************************************************)
(* SpecSmp: faults taken at the same time on the loaded module             *)
(***************************************************************************)
SmpThreads == 1..MaxConcurrent

SmpNext ==
    \E t \in SmpThreads :
        \/ kernel_call(t)
        \/ fh_do_error_trap_step(t)
        \/ orig_do_error_trap_call(t)

SmpInit == th = [t \in SmpThreads |-> IdleThread]

(***************************************************************************)
(* Specifications                                                          *)
(***************************************************************************)
vars == <<hookVars, trapVars, bmiVars>>

Init == HookInit /\ TrapInit /\ BmiOff

\* The module: loading and unloading, and the faults taken meanwhile.
Next == LoaderNext \/ TrapNext

Spec == Init /\ [][Next]_vars

\* The interface used by a caller that removes an array more than once.
SpecApi == Init /\ [][LoaderNext \/ fh_remove_hooks_again]_vars

\* bmi_instruction alone, on every instruction and snapshot of the inputs.
InitBmi == HookOff /\ TrapInit /\ BmiInit

SpecBmi == InitBmi /\ [][bmi_call]_vars

\* The loaded module with several threads faulting at once.
InitSmp == HookLoaded /\ SmpInit /\ BmiOff

SpecSmp == InitSmp /\ [][SmpNext]_vars

\* A thread inside the handler keeps running: it is not stopped for ever
\* between the handler's steps.
FairSmp ==
    SpecSmp /\ \A t \in SmpThreads :
                  WF_vars(fh_do_error_trap_step(t) \/ orig_do_error_trap_call(t))

\* bmi_instruction on a run of faults.
InitRepeat == HookOff /\ TrapInit /\ RepeatInit

SpecRepeat == InitRepeat /\ [][bmi_call \/ bmi_next_fault]_vars

(***************************************************************************)
(* Properties of the hook table                                            *)
(***************************************************************************)
InstallCalls == {"register_kprobe", "ftrace_set_filter_ip", "register_ftrace_function"}
RemoveCalls == {"unregister_ftrace_function", "ftrace_set_filter_ip_remove"}

\* Entry h has neither a registered ftrace function nor a filter.
Clean(h) == ~hooks[h].registered /\ hooks[h].filter = {}

\* Entry h is installed: its ops is registered and filters on its address.
Installed(h) == hooks[h].registered /\ hooks[h].address \in hooks[h].filter

\* The positions of klog that hold a call of fn.
CallsOf(fn) == {j \in 1..Len(klog) : klog[j].fn = fn}

\* A removal call on entry h failed during the current fh_init / fh_exit.
RemovalFailed(h) ==
    \E j \in 1..Len(klog) :
        klog[j].fn \in RemoveCalls /\ klog[j].hook = h /\ klog[j].res # 0

\* The entry whose installation failed: the last one fh_install_hook began.
FailingEntry == Cardinality(CallsOf("register_kprobe"))

\* The entries fh_remove_hook was called on, in call order.
RemovedOrder ==
    LET u == SelectSeq(klog, LAMBDA c : c.fn = "unregister_ftrace_function")
    IN [j \in 1..Len(u) |-> u[j].hook]

AnInstallStepFailed ==
    \E j \in 1..Len(klog) : klog[j].fn \in InstallCalls /\ klog[j].res # 0

C5_HookIsOnNamedFunction ==
    \A h \in Entries :
        hooks[h].registered =>
            /\ hooks[h].address = SymbolAddress(HookName(h))
            /\ hooks[h].address \in hooks[h].filter
            /\ original[h] = SymbolAddress(HookName(h))

\* C9: removal is best-effort and never blocks unload. Every
\* unregister_ftrace_function call, failed or not, is followed by the filter
\* removal on the same entry; when fh_remove_hooks is over both calls were
\* made on every entry in turn, whatever failed; nothing is handed back to
\* the caller; and the removal can always take its next step.
C9_RemovalIsBestEffort ==
    /\ \A j \in CallsOf("unregister_ftrace_function") :
          IF j < Len(klog)
          THEN klog[j + 1].fn = "ftrace_set_filter_ip_remove"
               /\ klog[j + 1].hook = klog[j].hook
          ELSE pc = "rm_filter" /\ cur = klog[j].hook
    /\ pc = "removed" =>
          /\ Len(klog) = 2 * count
          /\ \A h \in Entries :
                /\ klog[2 * h - 1].fn = "unregister_ftrace_function"
                /\ klog[2 * h - 1].hook = h
                /\ klog[2 * h].fn = "ftrace_set_filter_ip_remove"
                /\ klog[2 * h].hook = h
          /\ ret = 0
    /\ pc \in {"remove_loop", "unregister", "rm_filter"} => ENABLED LoaderNext

\* fh_exit is over although unregistering the first of two entries failed.
C9_Witness ==
    /\ pc = "removed"
    /\ count = 2
    /\ klog[1].fn = "unregister_ftrace_function" /\ klog[1].res # 0
    /\ klog[2].fn = "ftrace_set_filter_ip_remove"
    /\ klog[3].hook = 2

\* C10: removal is idempotent per entry. During and after a repeated
\* fh_remove_hooks call, every entry that was already removed when the call
\* started has the registration and filter state it had then, and the call
\* can always take its next step and hands nothing back to the caller.
C10_RemoveIsIdempotent ==
    again > 0 =>
        /\ \A h \in Entries :
              (~snap[h].registered /\ snap[h].filter = {}) => hooks[h] = snap[h]
        /\ pc \in {"remove_loop", "unregister", "rm_filter"} => ENABLED LoaderNext

\* A second fh_remove_hooks is over on an entry the first one had removed.
C10_Witness ==
    /\ again = 1
    /\ pc = "removed"
    /\ snap[1].address # 0
    /\ ~snap[1].registered /\ snap[1].filter = {}
    /\ Len(klog) = 2 * count
    /\ hooks[1] = snap[1]

(***************************************************************************)
(* Properties of the trap dispatcher                                       *)
(***************************************************************************)
\* The fault of thread record x is eligible: user mode and trap 6.
Eligible(x) == x.regs0.user /\ x.trap.trapnr = 6

\* fh_do_error_trap has returned or made its forwarding call.
Dispatched(x) == x.pc \in {"forward", "returned", "oops"}

\* The arguments fh_do_error_trap received.
Received(x) ==
    [regs |-> x.regs0, error_code |-> x.trap.error_code, str |-> x.trap.str,
     trapnr |-> x.trap.trapnr, signr |-> x.trap.signr]

\* C1: the emulator is invoked only for a user-mode fault with trap number 6;
\* every kernel-mode fault and every other trap number is forwarded, with no
\* emulation attempt, by one call through orig_do_error_trap with the regs,
\* error_code, str, trapnr and signr received.
C1_OnlyUserInvalidOpcodeEmulated ==
    \A t \in Threads :
        /\ th[t].emu > 0 => Eligible(th[t])
        /\ (Dispatched(th[t]) /\ ~Eligible(th[t])) =>
               th[t].emu = 0 /\ th[t].fwd = <<Received(th[t])>>

\* A kernel-mode invalid-opcode fault has been forwarded unchanged.
C1_Witness ==
    \E t \in Threads :
        /\ th[t].pc = "returned"
        /\ ~th[t].regs0.user /\ th[t].trap.trapnr = 6
        /\ th[t].emu = 0
        /\ th[t].fwd = <<Received(th[t])>>

\* C2: an eligible fault gets exactly one emulation attempt, and then exactly
\* one of two things: the emulator handled it and the handler returns without
\* a forwarding call, or it did not and the handler forwards exactly once.
C2_OneAttemptThenReturnOrForward ==
    \A t \in Threads :
        /\ th[t].emu <= 1 /\ Len(th[t].fwd) <= 1
        /\ (Dispatched(th[t]) /\ Eligible(th[t])) =>
               /\ th[t].emu = 1
               /\ IF opemu_utrap(th[t].regs0, th[t].ins).ret # 0
                  THEN th[t].fwd = << >> /\ th[t].pc = "returned"
                  ELSE Len(th[t].fwd) = 1

\* An eligible fault was emulated and the handler returned without forwarding.
C2_Witness ==
    \E t \in Threads :
        /\ th[t].pc = "returned"
        /\ Eligible(th[t])
        /\ th[t].emu = 1
        /\ th[t].handled
        /\ th[t].fwd = << >>
        /\ th[t].regs # th[t].regs0

(***************************************************************************)
(* Properties of bmi_instruction                                           *)
(***************************************************************************)
\* The operation the dispatch key (opcode, prefix class, map selector, and
\* for 0xF3 the ModRM.reg sub-selector) stands for, "none" when unrecognized.
Operation(a) ==
    LET key == <<a.opcode, a.simd_prefix, a.leading_opcode>> IN
    CASE key = <<240, 3, 3>> -> "rorx"
      [] key = <<242, 0, 2>> -> "andn"
      [] key = <<243, 0, 2>> /\ ModReg(a.modrm) = 1 -> "blsr"
      [] key = <<243, 0, 2>> /\ ModReg(a.modrm) = 2 -> "blsmsk"
      [] key = <<243, 0, 2>> /\ ModReg(a.modrm) = 3 -> "blsi"
      [] key = <<245, 0, 2>> -> "bzhi"
      [] key = <<245, 2, 2>> -> "pext"
      [] key = <<245, 3, 2>> -> "pdep"
      [] key = <<246, 3, 2>> -> "mulx"
      [] key = <<247, 0, 2>> -> "bextr"
      [] key = <<247, 1, 2>> -> "shlx"
      [] key = <<247, 2, 2>> -> "sarx"
      [] key = <<247, 3, 2>> -> "shrx"
      [] OTHER -> "none"

\* The ModRM.reg register, extended by the R bit.
RegDst(a) == ModReg(a.modrm) + (IF a.high_reg # 0 THEN 8 ELSE 0)

\* The primary source operand of the call.
SrcOperand ==
    Trunc(IF ModMod(insn.modrm) = 3 THEN entry.gpr[ModRm(insn.modrm)] ELSE insn.memval,
          Width(entry, insn))

\* C6: bmi_instruction returns 0 for every dispatch key that is not one of
\* the recognized operations, and a non-zero count only when an operation
\* was emulated.
C6_UnrecognizedIsNotHandled ==
    bpc = "returned" =>
        /\ Operation(insn) = "none" => result = 0
        /\ result # 0 => Operation(insn) # "none"

\* C7: for blsr / blsmsk / blsi (0xF3, no prefix, 0F38, ModRM.reg 1 / 2 / 3)
\* the result is in the vvvv register and every other general-purpose
\* register, the ModRM.reg one included, is as on entry, on both paths.
C7_BlsWritesVvvv ==
    (bpc = "returned" /\ Operation(insn) \in {"blsr", "blsmsk", "blsi"}) =>
        /\ state.gpr[insn.vexreg] =
              Trunc(CASE Operation(insn) = "blsr" ->
                             blsr(SrcOperand, Width(entry, insn), entry.flags).res
                      [] Operation(insn) = "blsmsk" ->
                             blsmsk(SrcOperand, Width(entry, insn), entry.flags).res
                      [] Operation(insn) = "blsi" ->
                             blsi(SrcOperand, Width(entry, insn), entry.flags).res,
                    Width(entry, insn))
        /\ \A r \in 0..15 : r # insn.vexreg => state.gpr[r] = entry.gpr[r]

\* blsr on the 32-bit path changed the vvvv register and left the ModRM.reg
\* register, a different one, alone.
C7_Witness ==
    /\ bpc = "returned"
    /\ Operation(insn) = "blsr"
    /\ ~entry.is64
    /\ insn.vexreg # RegDst(insn)
    /\ state.gpr[insn.vexreg] # entry.gpr[insn.vexreg]
    /\ state.gpr[RegDst(insn)] = entry.gpr[RegDst(insn)]

\* C8: for every emulated operation, the returned count is the incoming
\* ins_size plus the bytes get_consumed reports, plus one for the immediate
\* byte exactly when the operation is rorx, on both paths.
C8_ConsumedByteCount ==
    (bpc = "returned" /\ Operation(insn) # "none") =>
        result = insn.ins_size + get_consumed(insn.modrm)
                 + (IF Operation(insn) = "rorx" THEN 1 ELSE 0)

\* A rorx with a disp32 memory operand was emulated: 4 + 5 + 1 bytes.
C8_Witness ==
    /\ bpc = "returned"
    /\ Operation(insn) = "rorx"
    /\ insn.ins_size = 4 /\ get_consumed(insn.modrm) = 5
    /\ result = 10
    /\ state.gpr[RegDst(insn)] # entry.gpr[RegDst(insn)]

\* The operations that have one destination and leave the flags alone.
SingleDestNoFlags == {"rorx", "pext", "pdep", "shlx", "sarx", "shrx"}

\* C11: for rorx, pext, pdep, shlx, sarx and shrx the snapshot after the call
\* is the snapshot on entry except for the register selected by ModRM.reg
\* extended by the R bit: flags, instruction pointer and every other register
\* are as on entry.
C11_OnlyDestinationChanges ==
    (bpc = "returned" /\ Operation(insn) \in SingleDestNoFlags) =>
        state = [entry EXCEPT !.gpr[RegDst(insn)] = state.gpr[RegDst(insn)]]

\* A pdep changed its destination, a register other than vvvv.
C11_Witness ==
    /\ bpc = "returned"
    /\ Operation(insn) = "pdep"
    /\ RegDst(insn) # insn.vexreg
    /\ state.gpr[RegDst(insn)] # entry.gpr[RegDst(insn)]
    /\ state.flags = entry.flags

\* C12: mulx writes the low half of the product to the vvvv register and,
\* when that is another register, the high half to the ModRM.reg register
\* (extended by the R bit); no other register, no flag and not the
\* instruction pointer changes, on both paths.
C12_MulxTwoDestinations ==
    (bpc = "returned" /\ Operation(insn) = "mulx") =>
        /\ state.gpr[insn.vexreg] =
              mulx(SrcOperand, entry.gpr[2], Width(entry, insn)).dres
        /\ RegDst(insn) # insn.vexreg =>
              state.gpr[RegDst(insn)] =
                  mulx(SrcOperand, entry.gpr[2], Width(entry, insn)).res
        /\ \A r \in 0..15 \ {RegDst(insn), insn.vexreg} : state.gpr[r] = entry.gpr[r]
        /\ state.flags = entry.flags /\ state.ip = entry.ip

\* A 32-bit mulx changed two different registers.
C12_Witness ==
    /\ bpc = "returned"
    /\ Operation(insn) = "mulx"
    /\ ~entry.is64
    /\ RegDst(insn) # insn.vexreg
    /\ state.gpr[RegDst(insn)] # entry.gpr[RegDst(insn)]
    /\ state.gpr[insn.vexreg] # entry.gpr[insn.vexreg]

\* C16: whenever bmi_instruction returned 0 the snapshot is as on entry.
C16_NotHandledLeavesSnapshot ==
    (bpc = "returned" /\ result = 0) => state = entry

\* An unknown opcode was not handled.
C16_Witness ==
    /\ bpc = "returned"
    /\ result = 0
    /\ insn.opcode = 241
    /\ state = entry

\* What the other path (32-bit for a 64-bit snapshot and the reverse) makes
\* of the same call.
OtherPath == bmi_instruction([entry EXCEPT !.is64 = ~entry.is64], insn)

\* The destination register indices of the operation a dispatch key selects.
Destinations(a) ==
    CASE Operation(a) = "none" -> {}
      [] Operation(a) \in {"blsr", "blsmsk", "blsi"} -> {a.vexreg}
      [] Operation(a) = "mulx" -> {RegDst(a), a.vexreg}
      [] OTHER -> {RegDst(a)}

\* The registers of snapshot regs that differ from the entry snapshot.
Changed(regs) == {r \in 0..15 : regs.gpr[r] # entry.gpr[r]}

\* C18: the 32-bit and the 64-bit path dispatch alike. For the same call
\* both return the same count and change no register outside the
\* destinations of the selected operation; at operand size 32, where the
\* widths agree, they leave the same snapshot.
C18_PathsDispatchAlike ==
    bpc = "returned" =>
        /\ result = OtherPath.ret
        /\ Changed(state) \subseteq Destinations(insn)
        /\ Changed(OtherPath.regs) \subseteq Destinations(insn)
        /\ insn.operand_size = 32 =>
              OtherPath.regs = [state EXCEPT !.is64 = ~entry.is64]

\* A pext at operand size 32 on a 64-bit snapshot changed its destination,
\* and the 32-bit path gives the same register value.
C18_Witness ==
    /\ bpc = "returned"
    /\ Operation(insn) = "pext"
    /\ entry.is64 /\ insn.operand_size = 32
    /\ Changed(state) = {RegDst(insn)}
    /\ OtherPath.regs.gpr = state.gpr

Solo(x) == opemu_utrap(x.regs0, x.ins)

C15_NoRecursion ==
    /\ [](\A t \in SmpThreads :
            /\ th[t].enters <= 1
            /\ th[t].pc = "forward" =>
                   th[t].target # 0 /\ ~Redirected(th[t].target, TRUE))
    /\ \A t \in SmpThreads :
          (th[t].pc = "fh_do_error_trap") ~> (th[t].pc = "returned")

\* A forwarded fault has run the function behind the saved pointer and
\* returned, having entered the handler once, with the hook still active.
C15_Witness ==
    \E t \in SmpThreads :
        /\ th[t].pc = "returned"
        /\ Len(th[t].fwd) = 1
        /\ th[t].enters = 1
        /\ Redirected(th[t].target, FALSE)

\* C17: whenever an entry's ftrace function is registered its saved original
\* pointer is non-null, no handler forwards through a null pointer, and the
\* pointer of a registered entry is not written.
C17_OriginalSetWhileRegistered ==
    /\ [](\A h \in Entries : hooks[h].registered => original[h] # 0)
    /\ [](\A t \in Threads :
            th[t].pc # "oops" /\ (th[t].pc = "forward" => th[t].target # 0))
    /\ [][\A h \in Entries : hooks[h].registered => original'[h] = original[h]]_vars

\* A fault is being forwarded through the saved pointer of the registered
\* first entry.
C17_Witness ==
    /\ hooks[1].registered
    /\ original[1] # 0
    /\ \E t \in Threads : th[t].pc = "forward" /\ th[t].target = original[1]

====
